---- MODULE Spec2Model ----
(***************************************************************************)
(* Model of RakiBot's retrieval, embedding-cache and source-escalation     *)
(* code:                                                                   *)
(*   app/services/agh_rag_service.py        (AGHRAGService)                *)
(*   app/services/enhanced_embedding_service.py (EmbeddingCache,           *)
(*                                           AdvancedEmbeddingService)     *)
(*   app/core/advanced_rag_engine.py        (AdvancedAtlasRAGEngine)       *)
(* Row positions are 1-based here (0-based in the Python code).            *)
(***************************************************************************)
EXTENDS Integers, Sequences, FiniteSets, TLC

VARIABLES
    \* ---- similarity retrieval (inputs of one retrieval, and its results)
    df,            \* the document store: [loaded, rows], rows = the Embedding column
    tieRank,       \* how this build's np.argsort orders equal keys (fixed per run)
    r_q,           \* query embedding handed to the retrievers
    r_threshold,   \* threshold argument, a rational <<num, den>>
    r_top_k,       \* top_k argument
    r_agh,         \* result of AGHRAGService._retrieve_relevant_chunks
    r_enh,         \* result of AdvancedEmbeddingService.retrieve_relevant_chunks
    \* ---- AGHRAGService.answer_question (one request)
    aq_pc, aq_enable, aq_qemb, aq_indices, aq_search, aq_events, aq_resp,
    \* ---- AdvancedAtlasRAGEngine.process_question (one request)
    pq_pc, pq_enable, pq_ollama, pq_web, pq_events, pq_resp,
    \* ---- EmbeddingCache (shared by all requests) and its callers
    now,           \* wall clock, hours
    files,         \* cache_dir/<key>.pkl : key -> file content
    meta,          \* cache_metadata.json : key -> entry
    procs,         \* per in-flight call: position, arguments, local variables
    ncalls,        \* number of cache calls begun
    stored,        \* history: the (text, model, vector) handed to set()
    lastSet,       \* history: key -> the last completed set() of that key
    \* ---- one application of a text or scoring function
    call           \* its arguments and, once applied, its results

retVars   == <<df, tieRank, r_q, r_threshold, r_top_k, r_agh, r_enh>>
aqVars    == <<aq_pc, aq_enable, aq_qemb, aq_indices, aq_search, aq_events, aq_resp>>
pqVars    == <<pq_pc, pq_enable, pq_ollama, pq_web, pq_events, pq_resp>>
cacheVars == <<now, files, meta, procs, ncalls, stored, lastSet>>
fnVars    == <<call>>
vars      == <<retVars, aqVars, pqVars, cacheVars, fnVars>>

(***************************************************************************)
(* Bounds of the model                                                     *)
(***************************************************************************)
MaxDocs == 3
MaxTopK == 2

(***************************************************************************)
(* Embedding vectors.  A cell of the Embedding column is None or a vector. *)
(* Vectors are integer vectors whose Euclidean norm is an integer, so that *)
(* cosine similarities are exact rationals.                                *)
(***************************************************************************)
NoneEmb == [isNone |-> TRUE, vec |-> <<>>]
Emb(v)  == [isNone |-> FALSE, vec |-> v]

DocVectors   == {<<0, 0>>, <<1, 0>>, <<4, 3>>, <<-1, 0>>, <<5, 12>>}
QueryVectors == {<<1, 0>>, <<3, 4>>}
\* a query embedding whose dimension differs from the store's
OtherDimQuery == <<1>>
Cells        == {NoneEmb} \cup {Emb(v) : v \in DocVectors}

SeqsUpTo(S, n) == UNION {[1..k -> S] : k \in 0..n}

Stores == {[loaded |-> TRUE, rows |-> rs] : rs \in SeqsUpTo(Cells, MaxDocs)}

RECURSIVE SumSeq(_)
SumSeq(s) == IF s = <<>> THEN 0 ELSE Head(s) + SumSeq(Tail(s))

Dot(a, b) == SumSeq([i \in 1..Len(a) |-> a[i] * b[i]])

\* np.linalg.norm: the vectors of the model have integer norms
Norm(a) == CHOOSE n \in 0..(Dot(a, a)) : n * n = Dot(a, a)

(***************************************************************************)
(* A similarity is the exact quotient d / (n + e*1e-8): d the dot product, *)
(* n the product of the norms, e = 1 when the code adds its epsilon.       *)
(* Comparisons are exact: for integers L, R with |R| * 1e-8 < 1,           *)
(*   L > R * 1e-8  iff  L > 0 \/ (L = 0 /\ R < 0).                          *)
(***************************************************************************)
GtEps(L, R) == L > 0 \/ (L = 0 /\ R < 0)

SimGT(s1, s2) == GtEps(s1.d * s2.n - s2.d * s1.n, (s2.d - s1.d) * s1.e)

SimEQ(s1, s2) == ~SimGT(s1, s2) /\ ~SimGT(s2, s1)

\* similarity > threshold, threshold = t[1] / t[2]
SimAbove(s, t) == GtEps(s.d * t[2] - t[1] * s.n, t[1] * s.e)

\* agh_rag_service.py 213-215: dot / (|a| * |q| + 1e-8)
CosineAGH(a, q) == [d |-> Dot(a, q), n |-> Norm(a) * Norm(q), e |-> 1]

\* sklearn cosine_similarity: rows are normalised, a zero norm is taken as 1
SkNorm(a) == IF Norm(a) = 0 THEN 1 ELSE Norm(a)
CosineSklearn(a, q) == [d |-> Dot(a, q), n |-> SkNorm(a) * SkNorm(q), e |-> 0]

(***************************************************************************)
(* np.argsort(values): the positions of values in ascending order.  The    *)
(* default kind is not stable: equal values come out in an order that      *)
(* depends on the build (insertion sort, introsort or a SIMD network);     *)
(* tieRank is that order for this run.                                     *)
(***************************************************************************)
ArgsortBefore(values, a, b) ==
    \/ SimGT(values[b], values[a])
    \/ SimEQ(values[a], values[b]) /\ tieRank[a] < tieRank[b]

Argsort(values) ==
    [i \in 1..Len(values) |->
        CHOOSE a \in 1..Len(values) :
            Cardinality({b \in 1..Len(values) : ArgsortBefore(values, b, a)}) = i - 1]

\* s[-k:] of Python, k >= 0 (s[-0:] is the whole sequence)
LastK(s, k) == IF k = 0 \/ k >= Len(s) THEN s ELSE SubSeq(s, Len(s) - k + 1, Len(s))

\* s[::-1]
Reverse(s) == [i \in 1..Len(s) |-> s[Len(s) - i + 1]]

\* a[idx] of numpy, idx a sequence of positions
Take(a, idx) == [i \in 1..Len(idx) |-> a[idx[i]]]

\* np.where(cond)[0]: the positions satisfying P, ascending
RECURSIVE WhereFrom(_, _, _)
WhereFrom(values, t, i) ==
    IF i > Len(values) THEN <<>>
    ELSE (IF SimAbove(values[i], t) THEN <<i>> ELSE <<>>) \o WhereFrom(values, t, i + 1)

Where(values, t) == WhereFrom(values, t, 1)

\* [x for x in s if keep(x)]
RECURSIVE FilterCells(_, _)
FilterCells(s, needNonEmpty) ==
    IF s = <<>> THEN <<>>
    ELSE LET c == Head(s)
             keep == ~c.isNone /\ (needNonEmpty => Len(c.vec) > 0)
         IN (IF keep THEN <<c.vec>> ELSE <<>>) \o FilterCells(Tail(s), needNonEmpty)

\* np.array / np.stack / np.dot succeed only when all vectors have the query's length
ShapesOK(vecs, q) == \A i \in 1..Len(vecs) : Len(vecs[i]) = Len(q)

(***************************************************************************)
(* AGHRAGService._retrieve_relevant_chunks (agh_rag_service.py 198-231).   *)
(* The result lists positions of the array built from the rows whose       *)
(* embedding is not None.  Any exception (ragged or mismatching shapes)    *)
(* is caught and gives [].                                                 *)
(***************************************************************************)
AGH_retrieve_relevant_chunks(store, question_embedding, threshold, top_k) ==
    IF ~store.loaded \/ question_embedding.isNone THEN <<>>
    ELSE LET embeddings_list == FilterCells(store.rows, FALSE)
             question_vec    == question_embedding.vec
         IN IF embeddings_list = <<>> THEN <<>>
            ELSE IF ~ShapesOK(embeddings_list, question_vec) THEN <<>>
            ELSE LET similarities == [i \in 1..Len(embeddings_list) |->
                                         CosineAGH(embeddings_list[i], question_vec)]
                     above   == Where(similarities, threshold)
                     indices == IF Len(above) = 0
                                THEN LastK(Argsort(similarities), top_k)
                                ELSE above
                 IN Take(indices, Reverse(Argsort(Take(similarities, indices))))

\* what the handlers of lines 229-231 and 481-484 do with an exception: it
\* is logged and the retriever returns []
retrieve_on_exception == "empty_list"

\* np.array / np.dot raise inside the try of line 200
AGH_retrieve_raises(store, question_embedding) ==
    /\ store.loaded /\ ~question_embedding.isNone
    /\ FilterCells(store.rows, FALSE) # <<>>
    /\ ~ShapesOK(FilterCells(store.rows, FALSE), question_embedding.vec)

\* how a call of _retrieve_relevant_chunks ends: "list" (a normal return),
\* or what the handler makes of an exception
AGH_retrieve_outcome(store, question_embedding) ==
    IF AGH_retrieve_raises(store, question_embedding) THEN retrieve_on_exception ELSE "list"

\* the similarity by which AGH ranked position i of its result array
AGH_similarity(store, question_embedding, i) ==
    CosineAGH(FilterCells(store.rows, FALSE)[i], question_embedding.vec)

(***************************************************************************)
(* AdvancedEmbeddingService.retrieve_relevant_chunks                       *)
(* (enhanced_embedding_service.py 411-484).  "threshold or default" and    *)
(* "top_k or default" replace a zero argument by the configured value.     *)
(***************************************************************************)
ConfigThreshold == <<9, 20>>     \* config.rag.embedding_threshold = 0.45
ConfigTopK      == 8             \* config.rag.top_k_retrieval

Emb_retrieve_relevant_chunks(store, question_embedding, threshold_arg, top_k_arg) ==
    IF question_embedding.isNone THEN <<>>
    ELSE LET threshold == IF threshold_arg[1] = 0 THEN ConfigThreshold ELSE threshold_arg
             top_k     == IF top_k_arg = 0 THEN ConfigTopK ELSE top_k_arg
             valid_embeddings == FilterCells(store.rows, TRUE)
             question_vec     == question_embedding.vec
         IN IF store.rows = <<>> THEN <<>>
            ELSE IF valid_embeddings = <<>> THEN <<>>
            ELSE IF ~ShapesOK(valid_embeddings, question_vec) THEN <<>>
            ELSE LET similarities == [i \in 1..Len(valid_embeddings) |->
                                         CosineSklearn(valid_embeddings[i], question_vec)]
                     above_threshold == Where(similarities, threshold)
                     indices ==
                         IF Len(above_threshold) = 0
                         THEN LastK(Argsort(similarities), top_k)
                         ELSE Take(above_threshold,
                                   LastK(Argsort(Take(similarities, above_threshold)), top_k))
                 IN Take(indices, Reverse(Argsort(Take(similarities, indices))))

\* np.stack / cosine_similarity raise inside the try of line 427
Emb_retrieve_raises(store, question_embedding) ==
    /\ ~question_embedding.isNone
    /\ FilterCells(store.rows, TRUE) # <<>>
    /\ ~ShapesOK(FilterCells(store.rows, TRUE), question_embedding.vec)

Emb_retrieve_outcome(store, question_embedding) ==
    IF Emb_retrieve_raises(store, question_embedding) THEN retrieve_on_exception ELSE "list"

Emb_similarity(store, question_embedding, i) ==
    CosineSklearn(FilterCells(store.rows, TRUE)[i], question_embedding.vec)

(***************************************************************************)
(* Scores are kept in thousandths (0.7 is 700).  An overlap ratio is one   *)
(* of 0, 1/2, 1, written 0, 1, 2 (in halves).                              *)
(***************************************************************************)
Halves == {0, 1, 2}
WordCounts == {0, 2, 3, 50}

Min(a, b) == IF a < b THEN a ELSE b
Max(a, b) == IF a > b THEN a ELSE b

\* AGHRAGService._calculate_trust_score (agh_rag_service.py 323-358)
\*   0.3*keyword_overlap + 0.2*term_score + 0.3*content_overlap + 0.2*quality_score
calculate_trust_score(keyword_overlap, term_score, content_overlap, answer_words, raised) ==
    IF raised THEN 500
    ELSE 150 * keyword_overlap + 100 * term_score + 150 * content_overlap
         + (200 * Min(50, answer_words)) \div 50

\* AGHRAGService._is_low_quality_answer (agh_rag_service.py 360-373)
is_low_quality_answer(answer_words, contains_question, generic_phrase) ==
    IF answer_words <= 2 THEN TRUE
    ELSE IF contains_question THEN TRUE
    ELSE generic_phrase

\* what the generation provider can return on the document path, seen through
\* the quantities the scorers read
DocAnswers ==
    {a \in [words : WordCounts, contains_question : BOOLEAN, generic : BOOLEAN,
            keyword : Halves, term : Halves, content : Halves, score_raised : BOOLEAN] :
        /\ (a.words = 0 => a.keyword = 0 /\ a.content = 0 /\ a.term # 2
                           /\ ~a.generic)
        /\ (a.score_raised => a.keyword = 0 /\ a.term = 0 /\ a.content = 0)}

(***************************************************************************)
(* AGHRAGService.answer_question (agh_rag_service.py 394-666), one step    *)
(* per external call or decision.  aq_search lists the outcome of every    *)
(* search_and_extract call of the request, aq_events every external call   *)
(* in order.                                                               *)
(***************************************************************************)
SearchOutcomes == {"results", "empty", "raise"}

\* the answer field of a response whose answer is a fixed text of the service
FixedText == [words |-> 0, contains_question |-> FALSE, generic |-> FALSE,
              keyword |-> 0, term |-> 0, content |-> 0, score_raised |-> FALSE]

NoResp == [kind |-> "none", sources_type |-> "none", trust_score |-> 0, warning |-> "none",
           answer |-> FixedText]

Resp(k, st, ts, w) == [kind |-> k, sources_type |-> st, trust_score |-> ts, warning |-> w,
                       answer |-> FixedText]

\* 642-652: the response of the document path carries the generated answer
DocResp(a, ts, w) == [Resp("document", "document", ts, w) EXCEPT !.answer = a]

\* 405-418: a search keyword in the question turns web search on
EffectiveWebSearch(enable_web_search, has_search_keyword) ==
    IF has_search_keyword THEN TRUE ELSE enable_web_search

\* 421-432: self.df is None ends the request before any call
AQ_Start(enable_web_search, has_search_keyword) ==
    /\ aq_pc = "start"
    /\ aq_enable' = EffectiveWebSearch(enable_web_search, has_search_keyword)
    /\ IF ~df.loaded
       THEN /\ aq_resp' = Resp("not_initialized", "document", 0, "Service initialization error")
            /\ aq_pc' = "done"
       ELSE /\ aq_resp' = aq_resp
            /\ aq_pc' = "embed"
    /\ UNCHANGED <<aq_qemb, aq_indices, aq_search, aq_events, retVars, pqVars, cacheVars, fnVars>>

\* a variant without the test of line 436
AfterEmbed_Unchecked(embedding) == "retrieve"

\* 436: None or an empty list is "not question_embedding"
AfterEmbed(embedding) ==
    IF embedding.isNone \/ embedding.vec = <<>> THEN "embedding_failed" ELSE "retrieve"

\* 434-447: _embed_question, and the response when it gave nothing
AQ_Embed(embedding) ==
    /\ aq_pc = "embed"
    /\ aq_qemb' = embedding
    /\ aq_events' = Append(aq_events, "embed")
    /\ IF AfterEmbed(embedding) = "embedding_failed"
       THEN /\ aq_resp' = Resp("embedding_failed", "document", 0, "Embedding generation failed")
            /\ aq_pc' = "done"
       ELSE /\ aq_resp' = aq_resp
            /\ aq_pc' = "retrieve"
    /\ UNCHANGED <<aq_enable, aq_indices, aq_search, retVars, pqVars, cacheVars, fnVars>>

\* a variant in which the local documents are tried before the web
AfterRetrieve_LocalFirst(enable_web_search) == "local_check"

\* 453: if enable_web_search: the web search comes first
AfterRetrieve(enable_web_search) ==
    IF enable_web_search THEN "web_first" ELSE "local_check"

DefaultThreshold == <<3, 4>>    \* threshold: float = 0.75  (line 198)
DefaultTopK      == 3           \* top_k: int = 3          (line 198)

\* 449-453
AQ_Retrieve ==
    /\ aq_pc = "retrieve"
    /\ aq_indices' = AGH_retrieve_relevant_chunks(df, aq_qemb, DefaultThreshold, DefaultTopK)
    /\ aq_events' = Append(aq_events, "retrieve")
    /\ aq_pc' = AfterRetrieve(aq_enable)
    /\ UNCHANGED <<aq_enable, aq_qemb, aq_search, aq_resp, retVars, pqVars, cacheVars, fnVars>>

\* 455-506: the first search; an empty result or an exception falls through
\* to line 507 ("Falling back to document search...")
AfterWebFirst(outcome) ==
    IF outcome = "results" THEN "web_first_generate" ELSE "local_check"

AQ_WebFirstSearch(outcome) ==
    /\ aq_pc = "web_first"
    /\ aq_search' = Append(aq_search, outcome)
    /\ aq_events' = Append(aq_events, "search")
    /\ aq_pc' = AfterWebFirst(outcome)
    /\ UNCHANGED <<aq_enable, aq_qemb, aq_indices, aq_resp, retVars, pqVars, cacheVars, fnVars>>

\* 488-502: _generate_answer catches its own exceptions
AQ_WebFirstGenerate ==
    /\ aq_pc = "web_first_generate"
    /\ aq_events' = Append(aq_events, "generate")
    /\ aq_resp' = Resp("web", "web", 700, "none")
    /\ aq_pc' = "done"
    /\ UNCHANGED <<aq_enable, aq_qemb, aq_indices, aq_search, retVars, pqVars, cacheVars, fnVars>>

\* a variant that tries the web whenever nothing is local
AfterLocalCheck_AlwaysFallback(indices, enable_web_search) ==
    IF indices = <<>> THEN "web_fallback" ELSE "document"

\* a variant without the return of lines 560-570
AfterLocalCheck_NoEarlyReturn(indices, enable_web_search) ==
    IF indices = <<>> /\ enable_web_search THEN "web_fallback" ELSE "document"

\* a variant with the test of line 507 inverted
AfterLocalCheck_Inverted(indices, enable_web_search) ==
    IF indices # <<>>
    THEN (IF enable_web_search THEN "web_fallback" ELSE "no_documents")
    ELSE "document"

\* 507-509, 560, 572
AfterLocalCheck(indices, enable_web_search) ==
    IF indices = <<>>
    THEN (IF enable_web_search THEN "web_fallback" ELSE "no_documents")
    ELSE "document"

NoDocumentsResp ==
    Resp("no_documents", "document", 0,
         "No relevant AGH documents found - enable web search to search online")

AQ_LocalCheck ==
    /\ aq_pc = "local_check"
    /\ LET next == AfterLocalCheck(aq_indices, aq_enable)
       IN IF next = "no_documents"
          THEN aq_resp' = NoDocumentsResp /\ aq_pc' = "done"
          ELSE aq_resp' = aq_resp /\ aq_pc' = next
    /\ UNCHANGED <<aq_enable, aq_qemb, aq_indices, aq_search, aq_events, retVars, pqVars, cacheVars, fnVars>>

\* 510-570: the search made when no local document was found
AQ_WebFallbackSearch(outcome) ==
    /\ aq_pc = "web_fallback"
    /\ aq_search' = Append(aq_search, outcome)
    /\ aq_events' = Append(aq_events, "search")
    /\ IF outcome = "results"
       THEN aq_resp' = aq_resp /\ aq_pc' = "web_fallback_generate"
       ELSE aq_resp' = NoDocumentsResp /\ aq_pc' = "done"
    /\ UNCHANGED <<aq_enable, aq_qemb, aq_indices, retVars, pqVars, cacheVars, fnVars>>

\* 543-556
AQ_WebFallbackGenerate ==
    /\ aq_pc = "web_fallback_generate"
    /\ aq_events' = Append(aq_events, "generate")
    /\ aq_resp' = Resp("web", "web", 600,
                       "Answer based on web search for AGH regulations - not from internal documents")
    /\ aq_pc' = "done"
    /\ UNCHANGED <<aq_enable, aq_qemb, aq_indices, aq_search, retVars, pqVars, cacheVars, fnVars>>

\* a variant that looks at the score only
DocWarning_ScoreOnly(low_quality, trust_score, used) ==
    IF trust_score < 650
    THEN "Warning: This answer may be incomplete or off-topic."
    ELSE IF used = 0
    THEN "Warning: This answer contains no cited regulation sections."
    ELSE "none"

\* 617-622
DocWarning(low_quality, trust_score, used) ==
    IF low_quality \/ trust_score < 650
    THEN "Warning: This answer may be incomplete or off-topic."
    ELSE IF used = 0
    THEN "Warning: This answer contains no cited regulation sections."
    ELSE "none"

\* 572-652: the document path.  used is the number of chunks _build_prompt
\* kept; a is the generated answer; relevance_no is whether the relevance
\* prompt of line 626 would be answered "no".
AQ_Document(used, a, relevance_no) ==
    /\ aq_pc = "document"
    /\ used \in 0..Len(aq_indices)
    /\ used = 0 => a.content = 0
    /\ LET trust_score == calculate_trust_score(a.keyword, a.term, a.content,
                                                a.words, a.score_raised)
           warning == DocWarning(is_low_quality_answer(a.words, a.contains_question, a.generic),
                                 trust_score, used)
           relevance_check == trust_score < 300 /\ aq_indices = <<>>
       IN /\ aq_events' = IF relevance_check
                          THEN aq_events \o <<"generate", "generate">>
                          ELSE Append(aq_events, "generate")
          /\ aq_resp' = IF relevance_check /\ relevance_no
                        THEN Resp("not_related", "document", 0, "none")
                        ELSE DocResp(a, trust_score, warning)
    /\ aq_pc' = "done"
    /\ UNCHANGED <<aq_enable, aq_qemb, aq_indices, aq_search, retVars, pqVars, cacheVars, fnVars>>

\* a variant without the handler of lines 654-666
answer_question_on_exception_unhandled == "raised"

\* 654-666: an exception raised inside the try of line 420 is logged and
\* answered with the processing-error response
answer_question_on_exception == "error_response"

\* 572-652 raising outside the collaborators' own handlers (a sheet whose
\* header repeats the Title column makes row.get('Title') a Series, and
\* re.search of line 320 raises TypeError)
AQ_DocumentError ==
    /\ aq_pc = "document"
    /\ aq_resp' = IF answer_question_on_exception = "error_response"
                  THEN Resp("error", "document", 0, "Processing error")
                  ELSE Resp("raised", "none", 0, "none")
    /\ aq_pc' = "done"
    /\ UNCHANGED <<aq_enable, aq_qemb, aq_indices, aq_search, aq_events, retVars, pqVars, cacheVars, fnVars>>

AQ_Next ==
    \/ \E e \in BOOLEAN, k \in BOOLEAN : AQ_Start(e, k)
    \/ \E v \in {NoneEmb, Emb(<<>>)} \cup {Emb(q) : q \in QueryVectors} : AQ_Embed(v)
    \/ AQ_Retrieve
    \/ \E o \in SearchOutcomes : AQ_WebFirstSearch(o)
    \/ AQ_WebFirstGenerate
    \/ AQ_LocalCheck
    \/ \E o \in SearchOutcomes : AQ_WebFallbackSearch(o)
    \/ AQ_WebFallbackGenerate
    \/ \E u \in 0..MaxDocs, a \in DocAnswers, r \in BOOLEAN : AQ_Document(u, a, r)
    \/ AQ_DocumentError

(***************************************************************************)
(* AdvancedAtlasRAGEngine (advanced_rag_engine.py)                         *)
(***************************************************************************)
\* _make_ollama_request_with_retry (163-188): range(max_retries + 1) attempts;
\* fails is the number of leading attempts that raise.  Gives the number of
\* requests sent and whether a real response came back.
ollama_request_attempts(fails, max_retries) == Min(fails, max_retries) + 1
ollama_request_answered(fails, max_retries) == fails <= max_retries

GemmaMaxRetries  == 2    \* _generate_answer_with_gemma, line 732
DirectMaxRetries == 1    \* _generate_turkish_response 545, _generate_english_response 635

RECURSIVE Repeat(_, _)
Repeat(x, n) == IF n = 0 THEN <<>> ELSE <<x>> \o Repeat(x, n - 1)

\* a variant without the clamp of line 813
estimate_confidence_unclamped(short, query_answer_overlap, answer_context_overlap, answer_words) ==
    IF short THEN 100
    ELSE 200 * query_answer_overlap + 150 * answer_context_overlap
         + (300 * Min(50, answer_words)) \div 50

\* _estimate_confidence (787-813): short is "not answer or len(answer.strip()) < 10"
estimate_confidence(short, query_answer_overlap, answer_context_overlap, answer_words) ==
    IF short THEN 100
    ELSE Min(950, Max(100, 200 * query_answer_overlap + 150 * answer_context_overlap
                           + (300 * Min(50, answer_words)) \div 50))

\* what one generation call can do: fails leading attempts raise, then the
\* provider answers with status 200 or not; post-processing may raise
GenOutcomes ==
    {g \in [fails : 0..3, status_ok : BOOLEAN, raised : BOOLEAN, short : BOOLEAN,
            qa : Halves, ac : Halves, words : {0, 3, 50}] :
        /\ (g.words = 0 => g.short /\ g.qa = 0 /\ g.ac = 0)
        /\ (~g.status_ok \/ g.raised => g.short /\ g.words = 0)}

\* what _perform_web_search (815-846) can hand back:
\*   "content"  usable results whose joined content is not blank
\*   "blank"    results kept for a non-empty snippet whose content field is blank
\*   "none"     no results, no usable results, or an exception (caught, [])
WebResults == {"content", "blank", "none"}

NoPQResp == [mode |-> "none", web_enhanced |-> FALSE, sources_type |-> "none",
             confidence_score |-> 0, with_context |-> FALSE]

\* 877-893
PQ_Start(enable_web_search, ollama_available) ==
    /\ pq_pc = "start"
    /\ pq_enable' = enable_web_search
    /\ pq_ollama' = ollama_available
    /\ pq_pc' = IF enable_web_search THEN "web" ELSE "generate"
    /\ UNCHANGED <<pq_web, pq_events, pq_resp, retVars, aqVars, cacheVars, fnVars>>

\* 891-908
PQ_WebSearch(results) ==
    /\ pq_pc = "web"
    /\ pq_web' = results
    /\ pq_events' = Append(pq_events, "search")
    /\ pq_pc' = "generate"
    /\ UNCHANGED <<pq_enable, pq_ollama, pq_resp, retVars, aqVars, cacheVars, fnVars>>

\* _generate_answer_with_gemma (666-777): the confidence it returns
gemma_confidence(ollama_available, g) ==
    IF ~ollama_available THEN 300
    ELSE IF g.raised THEN 300
    ELSE IF ollama_request_answered(g.fails, GemmaMaxRetries) /\ g.status_ok
         THEN estimate_confidence(g.short, g.qa, g.ac, g.words)
         ELSE 300

\* _generate_direct_answer (417-456)
direct_confidence(g) == IF g.raised THEN 300 ELSE 800

\* 910-942
PQ_Generate(g) ==
    /\ pq_pc = "generate"
    /\ LET web_enhanced == pq_web # "none"
           with_context == pq_web = "content"
           calls == IF with_context
                    THEN (IF pq_ollama THEN ollama_request_attempts(g.fails, GemmaMaxRetries)
                          ELSE 0)
                    ELSE (IF pq_ollama THEN ollama_request_attempts(g.fails, DirectMaxRetries)
                          ELSE 0)
           confidence == IF with_context THEN gemma_confidence(pq_ollama, g)
                         ELSE IF pq_ollama THEN direct_confidence(g)
                         ELSE 300
       IN /\ pq_events' = pq_events \o Repeat("generate", calls)
          /\ pq_resp' = [mode |-> IF web_enhanced THEN "GEMMA3_WEB" ELSE "GEMMA3_DIRECT",
                         web_enhanced |-> web_enhanced,
                         sources_type |-> IF web_enhanced THEN "web" ELSE "general",
                         confidence_score |-> confidence,
                         with_context |-> with_context]
    /\ pq_pc' = "done"
    /\ UNCHANGED <<pq_enable, pq_ollama, pq_web, retVars, aqVars, cacheVars, fnVars>>

\* 944-958: the response of the handler of process_question
PQErrorResp == [mode |-> "ERROR", web_enhanced |-> FALSE, sources_type |-> "general",
                confidence_score |-> 100, with_context |-> FALSE]

\* an exception leaving process_question
PQRaised == [mode |-> "raised", web_enhanced |-> FALSE, sources_type |-> "none",
             confidence_score |-> 0, with_context |-> FALSE]

process_question_on_exception == "error_response"

\* 894-926 raising outside the collaborators' own handlers (a web result
\* whose content is not a string makes the join of line 902 raise)
PQ_InternalError ==
    /\ pq_pc = "generate" /\ pq_web # "none"
    /\ pq_resp' = IF process_question_on_exception = "error_response"
                  THEN PQErrorResp ELSE PQRaised
    /\ pq_pc' = "done"
    /\ UNCHANGED <<pq_enable, pq_ollama, pq_web, pq_events, retVars, aqVars, cacheVars, fnVars>>

PQ_Next ==
    \/ \E e \in BOOLEAN, o \in BOOLEAN : PQ_Start(e, o)
    \/ \E w \in WebResults : PQ_WebSearch(w)
    \/ \E g \in GenOutcomes : PQ_Generate(g)
    \/ PQ_InternalError

(***************************************************************************)
(* EmbeddingCache (enhanced_embedding_service.py 58-163).                  *)
(* Texts and model names are character strings.  The clock counts hours    *)
(* and moves only between calls (a call takes milliseconds).               *)
(***************************************************************************)
ttl_hours == 168     \* self.ttl_hours = 24 * 7
TimeStep  == 84      \* the clock advances in steps of TimeStep hours
MaxNow    == 252     \* ... up to MaxNow
MaxCalls  == 3       \* calls of the cache in one run

Texts  == {<<"a">>, <<"a", ":", "b">>}
Models == {<<"c">>, <<"b", ":", "c">>}
AllPairs == Texts \X Models
Vectors  == {<<1>>, <<2>>}
Procs    == {1, 2}

\* _get_cache_key (67-70): md5(f"{text}:{model}").  The digest is modelled as
\* the string it digests (md5 taken as collision-free); the concatenation
\* is the code's.
get_cache_key(text, model) == text \o <<":">> \o model

AllKeys == {get_cache_key(pr[1], pr[2]) : pr \in AllPairs}

NoEntry == [present |-> FALSE, timestamp |-> 0, model |-> <<>>, text_length |-> 0]
EmptyMetadata == [k \in AllKeys |-> NoEntry]     \* {} ; also what a missing or
                                                 \* unreadable file loads as (129-131)
NoFile      == [exists |-> FALSE, readable |-> FALSE, vec |-> <<>>]
CorruptFile == [exists |-> TRUE, readable |-> FALSE, vec |-> <<>>]
PickleFile(v) == [exists |-> TRUE, readable |-> TRUE, vec |-> v]

NoResult == [status |-> "none", vec |-> <<>>]
Result(st, v) == [status |-> st, vec |-> v]

\* a call: its position, its arguments and local variables (md, ikey, expired),
\* and once it has ended what it returned (res), when it began (at), the
\* timestamp of the entry a get found valid (ts), whether a storage operation
\* failed in it, whether it called the embedding provider (api)
IdleProc == [pc |-> "idle", op |-> "none", text |-> <<>>, model |-> <<>>, vec |-> <<>>,
             md |-> EmptyMetadata, ikey |-> <<>>, expired |-> {}, res |-> NoResult,
             at |-> 0, ts |-> 0, failed |-> FALSE, api |-> FALSE]

\* the call of p has ended: only what it returned is kept
Ended(c, result, failed) ==
    [IdleProc EXCEPT !.op = c.op, !.text = c.text, !.model = c.model, !.vec = c.vec,
                     !.res = result,
                     !.at = c.at, !.ts = c.ts, !.failed = c.failed \/ failed,
                     !.api = c.api]

NoSet == [done |-> FALSE, at |-> 0, vec |-> <<>>, text |-> <<>>, model |-> <<>>]

\* a variant of the expiry test that finds nothing expired
is_expired_never(now_, cache_time) == FALSE

\* expiry test of get (87) and cleanup_expired (157):
\*   datetime.now() - cache_time > timedelta(hours=self.ttl_hours)
is_expired(now_, cache_time) == now_ - cache_time > ttl_hours

\* a variant of set without its handler: the exception reaches the caller
set_on_exception_unhandled == "raised"

\* what a call does with an exception raised inside it
set_on_exception     == "returned"   \* 120-121: logged, set returns
get_on_exception     == "miss"       \* 97-99: logged, get returns None
cleanup_on_exception == "raised"     \* 149-163: no handler

Key(p) == get_cache_key(procs[p].text, procs[p].model)

AllIdle == \A p \in Procs : procs[p].pc = "idle"

\* the end of a cache.get, inside get() or inside embed_document (278-282)
GetFinish(p, st, v, failed) ==
    procs' = [procs EXCEPT ![p] =
        IF procs[p].op = "embed_document" /\ st = "miss"
        THEN [@ EXCEPT !.pc = "ed_api", !.md = EmptyMetadata, !.ikey = <<>>,
                       !.failed = @ \/ failed]
        ELSE Ended(@, Result(st, v), failed)]

\* the end of a cache.set, inside set() or inside embed_document (300-305)
SetFinish(p, st, failed) ==
    procs' = [procs EXCEPT ![p] =
        Ended(@, IF st = "raised" THEN Result("raised", <<>>)
                 ELSE IF procs[p].op = "embed_document"
                      THEN Result("returned", procs[p].vec)
                      ELSE Result("returned", <<>>),
              failed)]

Record(text, model, v) == [text |-> text, model |-> model, vec |-> v]

\* ---- calls begin
BeginSet(p, text, model, v) ==
    /\ procs[p].pc = "idle"
    /\ ncalls < MaxCalls
    /\ ncalls' = ncalls + 1
    /\ procs' = [procs EXCEPT ![p] = [IdleProc EXCEPT !.pc = "set_write", !.op = "set",
                    !.text = text, !.model = model, !.vec = v, !.at = now]]
    /\ stored' = stored \cup {Record(text, model, v)}
    /\ UNCHANGED <<now, files, meta, lastSet, retVars, aqVars, pqVars, fnVars>>

BeginGet(p, text, model) ==
    /\ procs[p].pc = "idle"
    /\ ncalls < MaxCalls
    /\ ncalls' = ncalls + 1
    /\ procs' = [procs EXCEPT ![p] = [IdleProc EXCEPT !.pc = "get_exists", !.op = "get",
                    !.text = text, !.model = model, !.at = now]]
    /\ UNCHANGED <<now, files, meta, stored, lastSet, retVars, aqVars, pqVars, fnVars>>

BeginCleanup(p) ==
    /\ procs[p].pc = "idle"
    /\ ncalls < MaxCalls
    /\ ncalls' = ncalls + 1
    /\ procs' = [procs EXCEPT ![p] = [IdleProc EXCEPT !.pc = "cl_load", !.op = "cleanup",
                    !.at = now]]
    /\ UNCHANGED <<now, files, meta, stored, lastSet, retVars, aqVars, pqVars, fnVars>>

\* embed_document(title, content) with use_cache (263-282)
BeginEmbedDocument(p, content, model) ==
    /\ procs[p].pc = "idle"
    /\ ncalls < MaxCalls
    /\ ncalls' = ncalls + 1
    /\ procs' = [procs EXCEPT ![p] = [IdleProc EXCEPT !.pc = "get_exists",
                    !.op = "embed_document", !.text = content, !.model = model, !.at = now]]
    /\ UNCHANGED <<now, files, meta, stored, lastSet, retVars, aqVars, pqVars, fnVars>>

\* ---- set (101-121)
\* 108-109: open(cache_file, 'wb'); pickle.dump
SetWrite(p, f) ==
    /\ procs[p].pc = "set_write"
    /\ f \in {"ok", "fail", "partial"}
    /\ IF f = "ok"
       THEN /\ files' = [files EXCEPT ![Key(p)] = PickleFile(procs[p].vec)]
            /\ procs' = [procs EXCEPT ![p].pc = "set_load"]
       ELSE /\ files' = IF f = "partial" THEN [files EXCEPT ![Key(p)] = CorruptFile]
                        ELSE files
            /\ SetFinish(p, set_on_exception, TRUE)
    /\ UNCHANGED <<now, meta, ncalls, stored, lastSet, retVars, aqVars, pqVars, fnVars>>

\* 112: metadata = self._load_metadata()
SetLoad(p, f) ==
    /\ procs[p].pc = "set_load"
    /\ f \in {"ok", "fail"}
    /\ procs' = [procs EXCEPT ![p].pc = "set_save",
                              ![p].md = IF f = "ok" THEN meta ELSE EmptyMetadata,
                              ![p].failed = @ \/ f # "ok"]
    /\ UNCHANGED <<now, files, meta, ncalls, stored, lastSet, retVars, aqVars, pqVars, fnVars>>

\* 113-118: metadata[cache_key] = {...}; self._save_metadata(metadata)
SetSave(p, f) ==
    /\ procs[p].pc = "set_save"
    /\ f \in {"ok", "fail", "partial"}
    /\ LET entry == [present |-> TRUE, timestamp |-> now, model |-> procs[p].model,
                     text_length |-> Len(procs[p].text)]
       IN IF f = "ok"
          THEN /\ meta' = [procs[p].md EXCEPT ![Key(p)] = entry]
               /\ lastSet' = [lastSet EXCEPT ![Key(p)] =
                                 [done |-> TRUE, at |-> now, vec |-> procs[p].vec,
                                  text |-> procs[p].text, model |-> procs[p].model]]
               /\ SetFinish(p, "returned", FALSE)
          ELSE /\ meta' = IF f = "partial" THEN EmptyMetadata ELSE meta
               /\ lastSet' = lastSet
               /\ SetFinish(p, set_on_exception, TRUE)
    /\ UNCHANGED <<now, files, ncalls, stored, retVars, aqVars, pqVars, fnVars>>

\* ---- get (72-99)
\* 78-79
GetExists(p) ==
    /\ procs[p].pc = "get_exists"
    /\ IF files[Key(p)].exists
       THEN procs' = [procs EXCEPT ![p].pc = "get_load"]
       ELSE GetFinish(p, "miss", <<>>, FALSE)
    /\ UNCHANGED <<now, files, meta, ncalls, stored, lastSet, retVars, aqVars, pqVars, fnVars>>

\* 82-89
GetLoad(p, f) ==
    /\ procs[p].pc = "get_load"
    /\ f \in {"ok", "fail"}
    /\ LET metadata == IF f = "ok" THEN meta ELSE EmptyMetadata
       IN IF ~metadata[Key(p)].present
          THEN GetFinish(p, "miss", <<>>, f # "ok")
          ELSE IF is_expired(now, metadata[Key(p)].timestamp)
          THEN procs' = [procs EXCEPT ![p].pc = "inv_unlink", ![p].ikey = Key(p),
                                      ![p].md = metadata]
          ELSE procs' = [procs EXCEPT ![p].pc = "get_read", ![p].md = metadata,
                                      ![p].ts = metadata[Key(p)].timestamp]
    /\ UNCHANGED <<now, files, meta, ncalls, stored, lastSet, retVars, aqVars, pqVars, fnVars>>

\* 92-95: open(cache_file, 'rb'); pickle.load
GetRead(p, f) ==
    /\ procs[p].pc = "get_read"
    /\ f \in {"ok", "fail"}
    /\ IF f = "ok" /\ files[Key(p)].exists /\ files[Key(p)].readable
       THEN GetFinish(p, "hit", files[Key(p)].vec, FALSE)
       ELSE GetFinish(p, get_on_exception, <<>>, TRUE)
    /\ UNCHANGED <<now, files, meta, ncalls, stored, lastSet, retVars, aqVars, pqVars, fnVars>>

\* ---- _invalidate_entry (138-147), called by get (88) and cleanup_expired (161)
InvalidateRaised(p) ==
    IF procs[p].op = "cleanup"
    THEN procs' = [procs EXCEPT ![p] = Ended(@, Result(cleanup_on_exception, <<>>), TRUE)]
    ELSE GetFinish(p, get_on_exception, <<>>, TRUE)

InvalidateDone(p) ==
    IF procs[p].op = "cleanup"
    THEN procs' = [procs EXCEPT ![p].pc = "cl_next"]
    ELSE GetFinish(p, "miss", <<>>, FALSE)

\* 140-142
InvUnlink(p, f) ==
    /\ procs[p].pc = "inv_unlink"
    /\ f \in {"ok", "fail"}
    /\ IF f = "ok" \/ ~files[procs[p].ikey].exists
       THEN /\ files' = [files EXCEPT ![procs[p].ikey] = NoFile]
            /\ procs' = [procs EXCEPT ![p].pc = "inv_load"]
       ELSE /\ files' = files
            /\ InvalidateRaised(p)
    /\ UNCHANGED <<now, meta, ncalls, stored, lastSet, retVars, aqVars, pqVars, fnVars>>

\* 144
InvLoad(p, f) ==
    /\ procs[p].pc = "inv_load"
    /\ f \in {"ok", "fail"}
    /\ procs' = [procs EXCEPT ![p].pc = "inv_save",
                              ![p].md = IF f = "ok" THEN meta ELSE EmptyMetadata,
                              ![p].failed = @ \/ f # "ok"]
    /\ UNCHANGED <<now, files, meta, ncalls, stored, lastSet, retVars, aqVars, pqVars, fnVars>>

\* 145-147
InvSave(p, f) ==
    /\ procs[p].pc = "inv_save"
    /\ f \in {"ok", "fail", "partial"}
    /\ IF ~procs[p].md[procs[p].ikey].present
       THEN meta' = meta /\ InvalidateDone(p)
       ELSE IF f = "ok"
       THEN /\ meta' = [procs[p].md EXCEPT ![procs[p].ikey] = NoEntry]
            /\ InvalidateDone(p)
       ELSE /\ meta' = IF f = "partial" THEN EmptyMetadata ELSE meta
            /\ InvalidateRaised(p)
    /\ UNCHANGED <<now, files, ncalls, stored, lastSet, retVars, aqVars, pqVars, fnVars>>

\* ---- cleanup_expired (149-163)
\* 151-158
CleanupLoad(p, f) ==
    /\ procs[p].pc = "cl_load"
    /\ f \in {"ok", "fail"}
    /\ LET metadata == IF f = "ok" THEN meta ELSE EmptyMetadata
       IN procs' = [procs EXCEPT ![p].pc = "cl_next", ![p].md = metadata,
                       ![p].expired = {k \in AllKeys : /\ metadata[k].present
                                                       /\ is_expired(now, metadata[k].timestamp)},
                       ![p].failed = @ \/ f # "ok"]
    /\ UNCHANGED <<now, files, meta, ncalls, stored, lastSet, retVars, aqVars, pqVars, fnVars>>

\* 160-163
CleanupNext(p) ==
    /\ procs[p].pc = "cl_next"
    /\ IF procs[p].expired = {}
       THEN procs' = [procs EXCEPT ![p] = Ended(@, Result("returned", <<>>), FALSE)]
       ELSE \E k \in procs[p].expired :
               procs' = [procs EXCEPT ![p].pc = "inv_unlink", ![p].ikey = k,
                                      ![p].expired = @ \ {k}]
    /\ UNCHANGED <<now, files, meta, ncalls, stored, lastSet, retVars, aqVars, pqVars, fnVars>>

\* ---- embed_document after a cache miss (284-300): the provider call
EmbedApi(p, outcome, v) ==
    /\ procs[p].pc = "ed_api"
    /\ IF outcome = "ok"
       THEN /\ procs' = [procs EXCEPT ![p].pc = "set_write", ![p].vec = v, ![p].api = TRUE]
            /\ stored' = stored \cup {Record(procs[p].text, procs[p].model, v)}
       ELSE /\ procs' = [procs EXCEPT ![p] =
                            Ended([@ EXCEPT !.api = TRUE], Result("raised", <<>>), FALSE)]
            /\ stored' = stored
    /\ UNCHANGED <<now, files, meta, ncalls, lastSet, retVars, aqVars, pqVars, fnVars>>

\* ---- embed_question (384-409): the provider is called with the question;
\* an exception of the call is logged and None is returned
BeginEmbedQuestion(p, question, model) ==
    /\ procs[p].pc = "idle"
    /\ ncalls < MaxCalls
    /\ ncalls' = ncalls + 1
    /\ procs' = [procs EXCEPT ![p] = [IdleProc EXCEPT !.pc = "eq_api",
                    !.op = "embed_question", !.text = question, !.model = model, !.at = now]]
    /\ UNCHANGED <<now, files, meta, stored, lastSet, retVars, aqVars, pqVars, fnVars>>

\* 396-401: genai.embed_content is called whatever the cache holds
EmbedQuestionApi(p, outcome, v) ==
    /\ procs[p].pc = "eq_api"
    /\ procs' = [procs EXCEPT ![p] =
            Ended([@ EXCEPT !.api = TRUE],
                  IF outcome = "ok" THEN Result("returned", v) ELSE Result("none", <<>>),
                  FALSE)]
    /\ UNCHANGED <<now, files, meta, ncalls, stored, lastSet, retVars, aqVars, pqVars, fnVars>>

Tick ==
    /\ AllIdle
    /\ now + TimeStep <= MaxNow
    /\ now' = now + TimeStep
    /\ UNCHANGED <<files, meta, procs, ncalls, stored, lastSet, retVars, aqVars, pqVars, fnVars>>

\* all the steps of the calls of the requests P, over the given arguments and
\* the given outcomes of the storage operations
CacheNext(P, pairs, vectors, io) ==
    \/ \E p \in P, pr \in pairs, v \in vectors : BeginSet(p, pr[1], pr[2], v)
    \/ \E p \in P, pr \in pairs : BeginGet(p, pr[1], pr[2])
    \/ \E p \in P : BeginCleanup(p)
    \/ \E p \in P, pr \in pairs : BeginEmbedDocument(p, pr[1], pr[2])
    \/ \E p \in P, f \in io : SetWrite(p, f)
    \/ \E p \in P, f \in io : SetLoad(p, f)
    \/ \E p \in P, f \in io : SetSave(p, f)
    \/ \E p \in P : GetExists(p)
    \/ \E p \in P, f \in io : GetLoad(p, f)
    \/ \E p \in P, f \in io : GetRead(p, f)
    \/ \E p \in P, f \in io : InvUnlink(p, f)
    \/ \E p \in P, f \in io : InvLoad(p, f)
    \/ \E p \in P, f \in io : InvSave(p, f)
    \/ \E p \in P, f \in io : CleanupLoad(p, f)
    \/ \E p \in P : CleanupNext(p)
    \/ \E p \in P, o \in {"ok", "raise"}, v \in vectors : EmbedApi(p, o, v)
    \/ \E p \in P, pr \in pairs : BeginEmbedQuestion(p, pr[1], pr[2])
    \/ \E p \in P, o \in {"ok", "raise"}, v \in vectors : EmbedQuestionApi(p, o, v)
    \/ Tick

(***************************************************************************)
(* The retrievers as a state machine: Init draws the store and the         *)
(* arguments, the actions apply the two retrievers.                        *)
(***************************************************************************)
NotRun == [done |-> FALSE, idx |-> <<>>, outcome |-> "none"]
Ran(idx, outcome) == [done |-> TRUE, idx |-> idx, outcome |-> outcome]

Perms(n) == {f \in [1..n -> 1..n] : \A i, j \in 1..n : f[i] = f[j] => i = j}

Thresholds == {<<3, 4>>, <<0, 1>>}

RetrieveAGH ==
    /\ ~r_agh.done
    /\ r_agh' = Ran(AGH_retrieve_relevant_chunks(df, r_q, r_threshold, r_top_k),
                    AGH_retrieve_outcome(df, r_q))
    /\ UNCHANGED <<df, tieRank, r_q, r_threshold, r_top_k, r_enh, aqVars, pqVars, cacheVars, fnVars>>

RetrieveEnhanced ==
    /\ ~r_enh.done
    /\ r_enh' = Ran(Emb_retrieve_relevant_chunks(df, r_q, r_threshold, r_top_k),
                    Emb_retrieve_outcome(df, r_q))
    /\ UNCHANGED <<df, tieRank, r_q, r_threshold, r_top_k, r_agh, aqVars, pqVars, cacheVars, fnVars>>

(***************************************************************************)
(* main.py 175-224: the /ask handler hands the question to the AGH service *)
(* (chat mode "agh") or to the engine.                                     *)
(***************************************************************************)
Ask(chat_mode) ==
    /\ aq_pc = "idle" /\ pq_pc = "idle"
    /\ IF chat_mode = "agh"
       THEN aq_pc' = "start" /\ pq_pc' = pq_pc
       ELSE pq_pc' = "start" /\ aq_pc' = aq_pc
    /\ UNCHANGED <<aq_enable, aq_qemb, aq_indices, aq_search, aq_events, aq_resp,
                   pq_enable, pq_ollama, pq_web, pq_events, pq_resp, retVars, cacheVars, fnVars>>

(***************************************************************************)
(* Initial states                                                          *)
(***************************************************************************)
RetIdle ==
    /\ df = [loaded |-> TRUE, rows |-> <<>>]
    /\ tieRank = [i \in 1..MaxDocs |-> i]
    /\ r_q = NoneEmb /\ r_threshold = DefaultThreshold /\ r_top_k = DefaultTopK
    /\ r_agh = NotRun /\ r_enh = NotRun

AskIdle ==
    /\ aq_pc = "idle" /\ aq_enable = FALSE /\ aq_qemb = NoneEmb /\ aq_indices = <<>>
    /\ aq_search = <<>> /\ aq_events = <<>> /\ aq_resp = NoResp
    /\ pq_pc = "idle" /\ pq_enable = FALSE /\ pq_ollama = FALSE /\ pq_web = "none"
    /\ pq_events = <<>> /\ pq_resp = NoPQResp

CacheIdle ==
    /\ now = 0
    /\ files = [k \in AllKeys |-> NoFile]
    /\ meta = EmptyMetadata
    /\ procs = [p \in Procs |-> IdleProc]
    /\ ncalls = 0
    /\ stored = {}
    /\ lastSet = [k \in AllKeys |-> NoSet]

\* no function application in progress
NoCall == [fn |-> "none"]

FnIdle == call = NoCall

\* ---- retrieval
InitRetrieve ==
    /\ df \in Stores
    /\ tieRank \in Perms(MaxDocs)
    /\ r_q \in {Emb(q) : q \in QueryVectors \cup {OtherDimQuery}}
    /\ r_threshold \in Thresholds
    /\ r_top_k \in 1..MaxTopK
    /\ r_agh = NotRun /\ r_enh = NotRun
    /\ AskIdle /\ CacheIdle /\ FnIdle

NextRetrieve == RetrieveAGH \/ RetrieveEnhanced

SpecRetrieve == InitRetrieve /\ [][NextRetrieve]_vars

\* ---- one question through /ask
AskStores ==
    {[loaded |-> FALSE, rows |-> <<>>]}
    \cup {[loaded |-> TRUE, rows |-> rs] :
            rs \in SeqsUpTo({NoneEmb, Emb(<<1, 0>>), Emb(<<-1, 0>>)}, MaxDocs - 1)}

InitAsk ==
    /\ df \in AskStores
    /\ tieRank = [i \in 1..MaxDocs |-> i]
    /\ r_q = NoneEmb /\ r_threshold = DefaultThreshold /\ r_top_k = DefaultTopK
    /\ r_agh = NotRun /\ r_enh = NotRun
    /\ AskIdle /\ CacheIdle /\ FnIdle

NextAsk ==
    \/ \E m \in {"agh", "normal"} : Ask(m)
    \/ AQ_Next
    \/ PQ_Next

SpecAsk == InitAsk /\ [][NextAsk]_vars

\* ---- the cache: one request at a time, storage working
InitCache == RetIdle /\ AskIdle /\ CacheIdle /\ FnIdle

SeqPairs == {pr \in AllPairs : pr # <<(<<"a", ":", "b">>), (<<"b", ":", "c">>)>>}

NextCache == CacheNext({1}, SeqPairs, Vectors, {"ok"})

SpecCache == InitCache /\ [][NextCache]_vars

\* ---- the cache: two requests in flight, storage working
ConcPairs == {<<(<<"a">>), (<<"c">>)>>, <<(<<"a", ":", "b">>), (<<"b", ":", "c">>)>>}

NextCacheConc == CacheNext(Procs, ConcPairs, Vectors, {"ok"})

SpecCacheConc == InitCache /\ [][NextCacheConc]_vars

\* ---- the cache: one request at a time, storage operations may fail
NextCacheFaults == CacheNext({1}, ConcPairs, Vectors, {"ok", "fail", "partial"})

SpecCacheFaults == InitCache /\ [][NextCacheFaults]_vars

(***************************************************************************)
(* Texts.  A text is a sequence of characters; "60/100", "50/100" and      *)
(* "unclear" stand for those runs of characters, taken as one unit each.   *)
(***************************************************************************)
MaxText == 5
MaxPad  == 1

QuestionChars == {"a", "A", " ", "60/100"}
AnswerChars   == QuestionChars \cup {"unclear"}

\* str.lower()
LowerChar(c) == IF c = "A" THEN "a" ELSE c

Lower(s) == [i \in 1..Len(s) |-> LowerChar(s[i])]

\* needle in hay
Contains(hay, needle) ==
    \E i \in 0..(Len(hay) - Len(needle)) : SubSeq(hay, i + 1, i + Len(needle)) = needle

\* len(s.split()): the number of maximal runs of non-blank characters
WordCount(s) ==
    Cardinality({i \in 1..Len(s) : s[i] # " " /\ (i = 1 \/ s[i - 1] = " ")})

\* \b of re: between a word character and a non-word character or an end of
\* the text; every character of these texts but the blank is a word
\* character, and "60/100" begins and ends with a digit
WordBoundaryBefore(s, i) == i = 1 \/ s[i - 1] = " "
WordBoundaryAfter(s, i)  == i = Len(s) \/ s[i + 1] = " "

\* AGHRAGService._fix_known_errors (375-392): re.sub(r'\b60/100\b', '50/100');
\* the patterns of 380-383 need words that these texts cannot spell
fix_known_errors(answer) ==
    [i \in 1..Len(answer) |->
        IF answer[i] = "60/100" /\ WordBoundaryBefore(answer, i) /\ WordBoundaryAfter(answer, i)
        THEN "50/100"
        ELSE answer[i]]

\* 368-371: of the generic phrases these texts can spell "unclear"
has_generic_phrase(answer_lower) == Contains(answer_lower, <<"unclear">>)

\* _is_low_quality_answer (360-373) on texts
is_low_quality_text(question, answer) ==
    is_low_quality_answer(WordCount(answer),
                          Contains(Lower(answer), Lower(question)),
                          has_generic_phrase(Lower(answer)))

\* answer_question 591-622: the generated answer is rewritten by
\* _fix_known_errors, then judged, then the warning is chosen
document_answer(question, generated, trust_score, used) ==
    LET answer      == fix_known_errors(generated)
        low_quality == is_low_quality_text(question, answer)
    IN [answer |-> answer, low_quality |-> low_quality,
        warning |-> DocWarning(low_quality, trust_score, used)]

Questions == SeqsUpTo(QuestionChars, MaxText) \ {<<>>}

Pads == SeqsUpTo(AnswerChars, MaxPad)

\* what the generation provider may answer to a question: the question as
\* typed or in lower case, alone or with text around it, or a short text
GeneratedAnswers(question) ==
    {pre \o m \o suf : pre \in Pads, suf \in Pads, m \in {question, Lower(question), <<>>}}

TextCalls ==
    {[fn |-> "document_answer", question |-> q, pc |-> "generate", applied |-> FALSE,
      generated |-> <<>>, trust_score |-> 0, used |-> 0, answer |-> <<>>,
      low_quality |-> FALSE, warning |-> "none"] : q \in Questions}

\* 590: _generate_answer returns the provider's text
GenerateAnswer(g) ==
    /\ call.fn = "document_answer" /\ call.pc = "generate"
    /\ call' = [call EXCEPT !.pc = "judge", !.generated = g]
    /\ UNCHANGED <<retVars, aqVars, pqVars, cacheVars>>

\* 594-622, with the trust score of line 615 and the number of chunks used
JudgeAnswer(trust_score, used) ==
    /\ call.fn = "document_answer" /\ call.pc = "judge"
    /\ LET r == document_answer(call.question, call.generated, trust_score, used)
       IN call' = [call EXCEPT !.pc = "done", !.applied = TRUE,
                               !.trust_score = trust_score, !.used = used,
                               !.answer = r.answer, !.low_quality = r.low_quality,
                               !.warning = r.warning]
    /\ UNCHANGED <<retVars, aqVars, pqVars, cacheVars>>

InitText == RetIdle /\ AskIdle /\ CacheIdle /\ call \in TextCalls

NextText ==
    \/ \E g \in GeneratedAnswers(call.question) : GenerateAnswer(g)
    \/ \E t \in {649, 650}, u \in {0, 1} : JudgeAnswer(t, u)

SpecText == InitText /\ [][NextText]_vars

(***************************************************************************)
(* AdvancedAtlasRAGEngine._determine_chunk_quality                         *)
(* (advanced_rag_engine.py 848-871), on the number of chunks and the       *)
(* confidence score in thousandths.                                        *)
(***************************************************************************)
MaxChunks == 3

determine_chunk_quality(n_chunks, confidence_score) ==
    IF n_chunks = 0 THEN "No relevant info"
    ELSE IF confidence_score >= 800 THEN "Excellent"
    ELSE IF confidence_score >= 600 THEN "Very Good"
    ELSE IF confidence_score >= 400 THEN "Good"
    ELSE IF confidence_score >= 300 THEN "Limited"
    ELSE IF n_chunks >= 3 THEN "Excellent"
    ELSE IF n_chunks >= 2 THEN "Very Good"
    ELSE IF n_chunks >= 1 THEN "Good"
    ELSE "Basic"

ConfidenceScores == {50 * i : i \in 0..20}

QualityCalls ==
    {[fn |-> "chunk_quality", chunks |-> n, confidence_score |-> c, applied |-> FALSE,
      label |-> "none"] : n \in 0..MaxChunks, c \in ConfidenceScores}

DetermineChunkQuality ==
    /\ call.fn = "chunk_quality" /\ ~call.applied
    /\ call' = [call EXCEPT !.applied = TRUE,
                            !.label = determine_chunk_quality(call.chunks, call.confidence_score)]
    /\ UNCHANGED <<retVars, aqVars, pqVars, cacheVars>>

InitQuality == RetIdle /\ AskIdle /\ CacheIdle /\ call \in QualityCalls

NextQuality == DetermineChunkQuality

SpecQuality == InitQuality /\ [][NextQuality]_vars

(***************************************************************************)
(* AGHRAGService._build_prompt (agh_rag_service.py 233-289), on word       *)
(* counts: the prompt ends with a line break before each chunk is added,   *)
(* so the words of prompt + chunk + "\n\n" are those of both.  The result  *)
(* lists the positions of the chunks it kept.                              *)
(***************************************************************************)
\* 235-236: int(len(text.split()) * 1.3)
estimate_tokens(words) == (13 * words) \div 10

\* a variant of the loop that skips a chunk that does not fit and goes on
RECURSIVE build_prompt_loop_continue(_, _, _, _, _)
build_prompt_loop_continue(chunks, i, prompt_words, final_chunks, max_tokens) ==
    IF i > Len(chunks) THEN [prompt_words |-> prompt_words, final_chunks |-> final_chunks]
    ELSE LET test_prompt == prompt_words + chunks[i]
         IN IF estimate_tokens(test_prompt) > max_tokens
            THEN build_prompt_loop_continue(chunks, i + 1, prompt_words, final_chunks,
                                            max_tokens)
            ELSE build_prompt_loop_continue(chunks, i + 1, test_prompt,
                                            Append(final_chunks, i), max_tokens)

\* 279-287
RECURSIVE build_prompt_loop(_, _, _, _, _)
build_prompt_loop(chunks, i, prompt_words, final_chunks, max_tokens) ==
    IF i > Len(chunks) THEN [prompt_words |-> prompt_words, final_chunks |-> final_chunks]
    ELSE LET test_prompt == prompt_words + chunks[i]
         IN IF estimate_tokens(test_prompt) > max_tokens
            THEN [prompt_words |-> prompt_words, final_chunks |-> final_chunks]
            ELSE build_prompt_loop(chunks, i + 1, test_prompt, Append(final_chunks, i),
                                   max_tokens)

build_prompt(chunks, base_words, max_tokens) ==
    build_prompt_loop(chunks, 1, base_words, <<>>, max_tokens)

ChunkWords   == {1, 2, 5}
BaseWords    == {3, 4}
TokenBudgets == {5, 7, 9}

PromptCalls ==
    {[fn |-> "build_prompt", chunks |-> cs, base_words |-> b, max_tokens |-> m,
      applied |-> FALSE, prompt_words |-> 0, final_chunks |-> <<>>] :
        cs \in SeqsUpTo(ChunkWords, MaxChunks), b \in BaseWords, m \in TokenBudgets}

BuildPrompt ==
    /\ call.fn = "build_prompt" /\ ~call.applied
    /\ LET r == build_prompt(call.chunks, call.base_words, call.max_tokens)
       IN call' = [call EXCEPT !.applied = TRUE, !.prompt_words = r.prompt_words,
                               !.final_chunks = r.final_chunks]
    /\ UNCHANGED <<retVars, aqVars, pqVars, cacheVars>>

InitPrompt == RetIdle /\ AskIdle /\ CacheIdle /\ call \in PromptCalls

NextPrompt == BuildPrompt

SpecPrompt == InitPrompt /\ [][NextPrompt]_vars

(***************************************************************************)
(* Properties                                                              *)
(***************************************************************************)
HasBefore(events, what, i) == \E j \in 1..(i - 1) : events[j] = what

NoSearchGaveResults == \A i \in 1..Len(aq_search) : aq_search[i] # "results"

\* C1: answer_question issues at most one search_and_extract call per
\* request, whatever the search outcomes, enable_web_search and the local
\* candidates.
C1_AtMostOneSearch == Len(aq_search) <= 1

C3_WebSearchBeforeAnswer ==
    /\ \A i \in 1..Len(aq_events) :
          (aq_enable /\ aq_events[i] = "generate") => HasBefore(aq_events, "search", i)
    /\ (aq_pc = "done" /\ aq_enable
          /\ aq_resp.kind \notin {"not_initialized", "embedding_failed"})
          => aq_search # <<>>
    /\ \A i \in 1..Len(pq_events) :
          (pq_enable /\ pq_events[i] = "generate") => HasBefore(pq_events, "search", i)
    /\ (pq_pc = "done" /\ pq_enable) => HasBefore(pq_events, "search", Len(pq_events) + 1)

C3_Witness ==
    /\ aq_pc = "done" /\ aq_enable /\ aq_indices # <<>>
    /\ aq_events = <<"embed", "retrieve", "search", "generate">> /\ aq_resp.kind = "web"

\* a get that has ended
GetEnded(p) == procs[p].pc = "idle" /\ procs[p].op = "get" /\ procs[p].res.status # "none"

\* C4: set(t, m, v) followed immediately by get(t, m) returns v; once the
\* TTL has elapsed since that set, with no newer set of the key, get(t, m)
\* is a miss.
C4_RoundTripAndExpiry ==
    \A p \in Procs :
        LET s == lastSet[Key(p)]
        IN (GetEnded(p) /\ s.done /\ s.text = procs[p].text /\ s.model = procs[p].model)
            => /\ procs[p].at = s.at => procs[p].res = Result("hit", s.vec)
               /\ procs[p].at - s.at >= ttl_hours => procs[p].res.status = "miss"

\* C5: get never returns the vector of an entry whose age is greater than
\* or equal to the TTL; such a get is a miss.
C5_NeverReturnsExpired ==
    \A p \in Procs :
        (GetEnded(p) /\ procs[p].res.status = "hit") => procs[p].at - procs[p].ts < ttl_hours

\* C6: get(t, m) returns only a vector stored by a set with the same text
\* and the same model.
C6_ModelIsPartOfKey ==
    \A p \in Procs :
        (GetEnded(p) /\ procs[p].res.status = "hit")
            => Record(procs[p].text, procs[p].model, procs[p].res.vec) \in stored

\* what a get of key k would return in this state (78-95)
Lookup(k) ==
    IF files[k].exists /\ meta[k].present /\ ~is_expired(now, meta[k].timestamp)
       /\ files[k].readable
    THEN Result("hit", files[k].vec)
    ELSE Result("miss", <<>>)

InProgressOn(k) == \E p \in Procs : procs[p].pc # "idle" /\ procs[p].op # "cleanup" /\ Key(p) = k

\* C7: under concurrent calls, an entry whose set has completed is not lost
\* through calls on other keys: within the TTL a get of it still hits.
C7_CompletedSetNotLost ==
    \A k \in AllKeys :
        (lastSet[k].done /\ now - lastSet[k].at < ttl_hours /\ ~InProgressOn(k))
            => Lookup(k).status = "hit"

\* C8: when a storage operation of the cache fails, set and get still
\* return normally (get with a miss), embed_document returns the embedding
\* the provider computed, and get returns no vector other than one stored
\* for that key.
C8_StorageFailureDegrades ==
    \A p \in Procs :
        procs[p].pc = "idle" =>
            /\ procs[p].op \in {"get", "set"} => procs[p].res.status # "raised"
            /\ (procs[p].op = "get" /\ procs[p].failed) => procs[p].res.status = "miss"
            /\ (procs[p].op = "embed_document" /\ procs[p].vec # <<>>)
                    => procs[p].res = Result("returned", procs[p].vec)
            /\ (procs[p].op \in {"get", "embed_document"} /\ procs[p].res.status = "hit")
                    => \E s \in stored : /\ get_cache_key(s.text, s.model) = Key(p)
                                         /\ s.vec = procs[p].res.vec

C8_Witness ==
    \E p \in Procs :
        /\ procs[p].pc = "idle" /\ procs[p].op = "embed_document" /\ procs[p].failed
        /\ procs[p].vec # <<>> /\ procs[p].res = Result("returned", procs[p].vec)

\* the similarities of the result of a retriever, in result order
Ordered(idx, sim(_), tiebreak) ==
    \A i \in 1..(Len(idx) - 1) :
        \/ SimGT(sim(idx[i]), sim(idx[i + 1]))
        \/ /\ SimEQ(sim(idx[i]), sim(idx[i + 1]))
           /\ tiebreak => idx[i] < idx[i + 1]

AGHSim(i) == AGH_similarity(df, r_q, i)
EnhSim(i) == Emb_similarity(df, r_q, i)

\* C9: the result is ordered with higher similarity first and, among equal
\* similarities, the earlier row of the store first.
C9_TieBreakByInsertionOrder ==
    /\ r_agh.done => Ordered(r_agh.idx, AGHSim, TRUE)
    /\ r_enh.done => Ordered(r_enh.idx, EnhSim, TRUE)

\* C10: for topK >= 1 the result is ordered by non-increasing similarity
\* and holds at most topK candidates, above the threshold and in the
\* fallback.
C10_OrderedAndAtMostTopK ==
    /\ r_agh.done => Ordered(r_agh.idx, AGHSim, FALSE) /\ Len(r_agh.idx) <= r_top_k
    /\ r_enh.done => Ordered(r_enh.idx, EnhSim, FALSE) /\ Len(r_enh.idx) <= r_top_k

Distinct(idx) == \A i, j \in 1..Len(idx) : idx[i] = idx[j] => i = j

InSeq(x, idx) == \E i \in 1..Len(idx) : idx[i] = x

\* idx is a selection of the n stored vectors under threshold and top_k
ThresholdSelection(idx, n, sim(_), threshold, top_k) ==
    LET anyAbove == \E i \in 1..n : SimAbove(sim(i), threshold)
    IN /\ anyAbove => \A k \in 1..Len(idx) : SimAbove(sim(idx[k]), threshold)
       /\ ~anyAbove =>
            /\ Len(idx) = Min(top_k, n)
            /\ Distinct(idx)
            /\ \A k \in 1..Len(idx), j \in 1..n :
                  ~InSeq(j, idx) => ~SimGT(sim(j), sim(idx[k]))
       /\ n > 0 => idx # <<>>

\* C11: if some stored vector has similarity > threshold, every returned
\* candidate has similarity > threshold; if none has, the result is exactly
\* the min(top_k, store size) vectors of highest similarity; the result is
\* non-empty whenever the store holds a vector (dimensions agreeing).
C11_ThresholdSelectionWithFallback ==
    /\ (r_agh.done /\ ~AGH_retrieve_raises(df, r_q))
          => ThresholdSelection(r_agh.idx, Len(FilterCells(df.rows, FALSE)), AGHSim,
                                r_threshold, r_top_k)
    /\ (r_enh.done /\ ~Emb_retrieve_raises(df, r_q))
          => ThresholdSelection(r_enh.idx, Len(FilterCells(df.rows, TRUE)), EnhSim,
                                r_threshold, r_top_k)

\* C12: when the dimension of the query vector differs from the dimension of
\* the stored vectors, the retriever does not end with a normal result: it
\* reports a shape error.
C12_DimensionMismatchIsReported ==
    /\ (r_agh.done /\ AGH_retrieve_raises(df, r_q)) => r_agh.outcome = "shape_error"
    /\ (r_enh.done /\ Emb_retrieve_raises(df, r_q)) => r_enh.outcome = "shape_error"

\* C13: on every path through process_question the confidence of the
\* returned response lies in [0.1, 0.95].
C13_ConfidenceBounds ==
    pq_pc = "done" => (pq_resp.confidence_score >= 100 /\ pq_resp.confidence_score <= 950)

C13_Witness ==
    /\ pq_pc = "done" /\ pq_resp.with_context /\ pq_resp.mode = "GEMMA3_WEB"
    /\ pq_resp.confidence_score = 950

\* C14: every trust_score carried by a response of answer_question is
\* floored at 0.1 and capped at 0.95.
C14_TrustScoreBounds ==
    aq_pc = "done" => (aq_resp.trust_score >= 100 /\ aq_resp.trust_score <= 950)

\* C15: answer_question and process_question end with a response object,
\* whatever the collaborators do; no exception reaches the caller.
C15_NoExceptionPropagates ==
    /\ aq_pc = "done" => aq_resp.kind \notin {"none", "raised"}
    /\ pq_pc = "done" => pq_resp.mode \notin {"none", "raised"}

C15_Witness ==
    /\ aq_pc = "done" /\ aq_resp.kind = "error" /\ aq_resp.warning = "Processing error"

\* C16: every no-documents outcome is a response with source type none,
\* confidence 0.1 and a warning.
C16_EmptyResultOutcome ==
    (aq_pc = "done" /\ aq_resp.kind = "no_documents")
        => /\ aq_resp.sources_type = "none"
           /\ aq_resp.trust_score = 100
           /\ aq_resp.warning # "none"

\* number of occurrences of what in events
RECURSIVE Count(_, _)
Count(events, what) ==
    IF events = <<>> THEN 0
    ELSE (IF Head(events) = what THEN 1 ELSE 0) + Count(Tail(events), what)

\* C17: when the question embedding fails, answer_question returns the
\* "cannot process" response with confidence 0 and calls neither the
\* retriever, nor the web search, nor the generator, also when web search
\* was requested.
C17_EmbeddingFailureIsTerminal ==
    (aq_pc = "done" /\ (aq_qemb.isNone \/ aq_qemb.vec = <<>>) /\ Count(aq_events, "embed") > 0)
        => /\ aq_resp.kind = "embedding_failed"
           /\ aq_resp.trust_score = 0
           /\ aq_events = <<"embed">>
           /\ aq_search = <<>>

C17_Witness ==
    /\ aq_pc = "done" /\ aq_enable /\ aq_qemb.isNone
    /\ aq_resp.kind = "embedding_failed" /\ aq_events = <<"embed">>

\* the request got as far as the escalation decision of lines 453-507
ReachedDecision == aq_pc = "done" /\ Count(aq_events, "retrieve") > 0

\* C18 (as claimed): with web search not requested and no local candidates,
\* exactly one search call is attempted; results give a web-sourced answer,
\* a failure or an empty result gives NoAnswer.
C18_FallbackSearchWhenNothingLocal ==
    (ReachedDecision /\ ~aq_enable /\ aq_indices = <<>>)
        => /\ Len(aq_search) = 1
           /\ aq_search[1] = "results" => aq_resp.sources_type = "web"
           /\ aq_search[1] # "results" => aq_resp.kind = "no_documents"

\* C18 (amended): with web search not requested and no local candidates, no
\* search call and no generation call is made and the outcome is NoAnswer,
\* with a warning.
C18_NoSearchUnlessRequested ==
    (ReachedDecision /\ ~aq_enable /\ aq_indices = <<>>)
        => /\ aq_search = <<>>
           /\ Count(aq_events, "generate") = 0
           /\ aq_resp.kind = "no_documents"
           /\ aq_resp.warning # "none"

C18_Witness ==
    /\ ReachedDecision /\ ~aq_enable /\ aq_indices = <<>> /\ df.rows # <<>>
    /\ aq_resp.kind = "no_documents"

\* C19: for one generation request the provider is contacted at most twice
\* (the first attempt and one retry), on every call path of the engine.
C19_RetryBudget == Count(pq_events, "generate") <= 2

\* C20: every response whose source type is web carries a confidence or
\* trust score of at most 0.7.
C20_WebTrustCeiling ==
    /\ (aq_pc = "done" /\ aq_resp.sources_type = "web") => aq_resp.trust_score <= 700
    /\ (pq_pc = "done" /\ pq_resp.sources_type = "web") => pq_resp.confidence_score <= 700

\* C22: every response of answer_question whose trust score is below 0.65
\* carries a warning, and so does every document-path response whose answer
\* _is_low_quality_answer judges low-quality, whatever its score.
LowQualityResponse ==
    /\ aq_resp.kind = "document"
    /\ is_low_quality_answer(aq_resp.answer.words, aq_resp.answer.contains_question,
                             aq_resp.answer.generic)

C22_WarningFlag ==
    aq_pc = "done" =>
        /\ (aq_resp.trust_score < 650 => aq_resp.warning # "none")
        /\ (LowQualityResponse => aq_resp.warning # "none")

C22_Witness ==
    /\ aq_pc = "done" /\ LowQualityResponse
    /\ aq_resp.trust_score >= 650
    /\ aq_resp.answer.words > 2
    /\ aq_resp.warning = "Warning: This answer may be incomplete or off-topic."

\* C28: the relevance check of lines 624-640 is never taken: no response is
\* the "not related" response, and a request that reaches the document path
\* issues exactly one generation call.
C28_RelevanceCheckUnreachable ==
    /\ aq_resp.kind # "not_related"
    /\ Count(aq_events, "generate") <= 1

C28_Witness ==
    /\ aq_pc = "done" /\ aq_resp.kind = "document"
    /\ aq_resp.trust_score < 300
    /\ Count(aq_events, "generate") = 1

\* C30: a response of process_question marked as web-sourced (web_enhanced,
\* sources_type "web", mode "GEMMA3_WEB") was generated with the web results
\* as context, and the three markers agree with each other.
WebMarked ==
    \/ pq_resp.web_enhanced
    \/ pq_resp.sources_type = "web"
    \/ pq_resp.mode = "GEMMA3_WEB"

C30_WebMarkersMeanWebContext ==
    pq_pc = "done" =>
        /\ (WebMarked => pq_resp.with_context)
        /\ (pq_resp.web_enhanced <=> pq_resp.sources_type = "web")
        /\ (pq_resp.web_enhanced <=> pq_resp.mode = "GEMMA3_WEB")

IsZeroVector(v) == \A i \in 1..Len(v) : v[i] = 0

\* the vector at position i of the array AGH ranks
AGHVec(i) == FilterCells(df.rows, FALSE)[i]

\* C26: a document whose embedding is the zero vector has the minimum
\* similarity: in the ranking returned by _retrieve_relevant_chunks it never
\* stands before a document with a non-zero embedding.
C26_ZeroVectorRanksLast ==
    (r_agh.done /\ r_agh.outcome = "list") =>
        \A i, j \in 1..Len(r_agh.idx) :
            (i < j /\ IsZeroVector(AGHVec(r_agh.idx[i]))) => IsZeroVector(AGHVec(r_agh.idx[j]))

\* the rows of the store that the filter of a retriever keeps, in order:
\* position i of the ranked array holds the embedding of row KeptRows(..)[i]
RECURSIVE KeptRowsFrom(_, _, _)
KeptRowsFrom(rows, needNonEmpty, r) ==
    IF r > Len(rows) THEN <<>>
    ELSE (IF FilterCells(<<rows[r]>>, needNonEmpty) # <<>> THEN <<r>> ELSE <<>>)
         \o KeptRowsFrom(rows, needNonEmpty, r + 1)

KeptRows(rows, needNonEmpty) == KeptRowsFrom(rows, needNonEmpty, 1)

\* every index of idx, used as a row position of the store (df.iloc[i]), is
\* the row whose embedding was ranked under that index
IndicesAreRows(idx, rows, needNonEmpty) ==
    \A k \in 1..Len(idx) :
        /\ idx[k] \in 1..Len(rows)
        /\ KeptRows(rows, needNonEmpty)[idx[k]] = idx[k]

\* C29: every index returned by the retrievers is the row position of the
\* document whose embedding produced the similarity it was ranked by, also
\* when rows without an embedding were skipped.
C29_IndexIsRankedRow ==
    /\ r_agh.done => IndicesAreRows(r_agh.idx, df.rows, FALSE)
    /\ r_enh.done => IndicesAreRows(r_enh.idx, df.rows, TRUE)

\* C23: an embed_question for a text and model of which the cache holds a
\* valid entry does not call the embedding provider.
EmbedQuestionEnded(p) == procs[p].pc = "idle" /\ procs[p].op = "embed_question"

C23_QueryEmbeddingUsesCache ==
    \A p \in Procs :
        (EmbedQuestionEnded(p) /\ Lookup(Key(p)).status = "hit") => ~procs[p].api

\* a cleanup_expired that has returned
CleanupEnded(p) ==
    procs[p].pc = "idle" /\ procs[p].op = "cleanup" /\ procs[p].res.status = "returned"

\* the entry of key k, last stored at lastSet[k].at, was older than the TTL
\* when the cleanup of p ran
OlderThanTTL(p, k) == lastSet[k].done /\ procs[p].at - lastSet[k].at > ttl_hours

NotOlderThanTTL(p, k) == lastSet[k].done /\ procs[p].at - lastSet[k].at <= ttl_hours

AnswerRepeatsQuestion ==
    /\ call.fn = "document_answer" /\ call.applied
    /\ Contains(Lower(call.generated), Lower(call.question))

C21_RepeatedQuestionIsLowQuality ==
    AnswerRepeatsQuestion =>
        /\ is_low_quality_text(call.question, call.generated)
        /\ call.warning # "none"

\* C24: the quality label depends on the confidence score only, by the
\* thresholds 0.8, 0.6, 0.4, 0.3: a score below 0.3 is never labelled
\* excellent, very good or good, and equal scores get equal labels.
C24_LabelByThresholdsOnly ==
    (call.fn = "chunk_quality" /\ call.applied) =>
        /\ call.confidence_score < 300 => call.label \notin {"Excellent", "Very Good", "Good"}
        /\ \A n \in 0..MaxChunks :
              determine_chunk_quality(n, call.confidence_score) = call.label

\* C25: the chunks _build_prompt uses are a prefix of its input in unchanged
\* order, it stops at the first chunk that would push the estimated tokens
\* over max_tokens, and when it uses a chunk the estimate of the returned
\* prompt is within max_tokens.
WordsOf(chunks, k) == SumSeq(SubSeq(chunks, 1, k))

C25_PromptIsBudgetedPrefix ==
    (call.fn = "build_prompt" /\ call.applied) =>
        LET k == Len(call.final_chunks)
        IN /\ k <= Len(call.chunks)
           /\ call.final_chunks = [i \in 1..k |-> i]
           /\ call.prompt_words = call.base_words + WordsOf(call.chunks, k)
           /\ k < Len(call.chunks) =>
                 estimate_tokens(call.prompt_words + call.chunks[k + 1]) > call.max_tokens
           /\ k >= 1 => estimate_tokens(call.prompt_words) <= call.max_tokens

C25_Witness ==
    /\ call.fn = "build_prompt" /\ call.applied
    /\ Len(call.final_chunks) >= 1
    /\ Len(call.final_chunks) + 1 < Len(call.chunks)
    /\ estimate_tokens(call.prompt_words + call.chunks[Len(call.chunks)]) <= call.max_tokens

====
